---- MODULE Spec2Model ----
(***************************************************************************)
(* The import dependency graph builder of inspectvendor (dag.go): the      *)
(* worklist traversal ImportGraph.Scan / addPkg / skip, the matcher and    *)
(* the renderers WriteText, WriteFlat, WriteDot and ShowGraph, over a      *)
(* package metadata provider (go/build Import) that is fixed for the       *)
(* length of one run; and findTrueVersion of the showversion command.      *)
(***************************************************************************)
EXTENDS Integers, Sequences, FiniteSets, TLC

VARIABLES
    env,        \* the process at its start: -std, flag.Args(), whether os.Getwd
                \* succeeds and whether `go list` exits non-zero
    world,      \* the provider's answer: the direct imports it returns per package
    seeds,      \* the lines `go list` prints for the arguments
    ig,         \* the ImportGraph: Imports, ImportPaths, Std, includeStd, todo, added
    calls,      \* how many times build.Import was called, per identifier
    pc,         \* position in doDAG: "Start", "FatalGetwd", "FatalList", "Scan", "Panic", "Render", "Dot", "View", "Done",
                \* "Fatal"; "Match", "Matched"; "Version"
    outputFormat, \* the renderer the -f flag selected, "" before the switch
    tmpFile,    \* the temporary image of ShowGraph: "none", "exists", "removed"
    mr,         \* the matcher built by newMatcher (re = "" is the nil regexp)
    out,        \* the lines written by the renderer
    mIn,        \* a matcher call under test: pattern p, prefix x, identifier y
    mOut,       \* its results
    fv          \* the run of findTrueVersion: manifests, depth, frames, position

vars == <<env, world, seeds, ig, calls, pc, outputFormat, tmpFile, mr, out, mIn, mOut, fv>>

---------------------------------------------------------------------------
(* Bounds and input universe *)

\* total number of seed entries plus import entries of one enumerated input
MaxSize == 3

\* identifiers of the exhaustively enumerated inputs
GenericIds == {"app", "app/vendor/libA", "fmt", "bad", "C"}
\* identifiers that only the named scenarios use
ScenarioIds == {"libA", "libB", "golang_org/x/net", "nopath"}
AllIds == GenericIds \cup ScenarioIds

\* filter patterns of the -m flag ("" is no filter)
Patterns == {"", "^libA$", "lib", "app", "("}

\* provider: packages found under GOROOT (p.Goroot)
StdPkgs == {"fmt"}
\* provider: packages build.Import fails on
BadPkgs == {"bad"}
\* provider: the resolved import path (p.ImportPath)
ResolvedPath(pn) ==
    CASE pn = "nopath" -> ""
      [] pn = "libA" -> "app/vendor/libA"
      [] OTHER -> pn

SeqsUpTo(S, n) == UNION {[1..k -> S] : k \in 0..n}

Range(s) == {s[i] : i \in 1..Len(s)}

Count(s, x) == Cardinality({i \in 1..Len(s) : s[i] = x})

NoImports == [p \in AllIds |-> <<>>]

\* the provider's relation with the three import lists a, b, c
GenericWorld(a, b, c) ==
    [p \in AllIds |->
        CASE p = "app" -> a
          [] p = "app/vendor/libA" -> b
          [] p = "fmt" -> c
          [] OTHER -> <<>>]

\* spec.md section 8: app imports libA and libB, libA imports libB
ScenarioWorld ==
    [p \in AllIds |->
        CASE p = "app" -> <<"libB", "libA">>
          [] p = "libA" -> <<"libB">>
          [] OTHER -> <<>>]

\* a package importing pseudo-imports, an empty-path package and a failing
\* one, the latter returned twice
PseudoWorld ==
    [p \in AllIds |->
        CASE p = "app" -> <<"nopath", "golang_org/x/net", "C", "bad", "libB", "bad">>
          [] p = "nopath" -> <<"libA">>
          [] OTHER -> <<>>]

---------------------------------------------------------------------------
(* Strings *)

\* the bytes that occur in identifiers, in ASCII order
Ascii == "/0123456789ABCDEFGHIJKLMNOPQRSTUVWXYZ_abcdefghijklmnopqrstuvwxyz"

CharRank(c) == CHOOSE i \in 1..Len(Ascii) : SubSeq(Ascii, i, i) = c

RECURSIVE LessFrom(_, _, _)
LessFrom(a, b, i) ==
    IF i > Len(b) THEN FALSE
    ELSE IF i > Len(a) THEN TRUE
    ELSE LET ca == SubSeq(a, i, i)
             cb == SubSeq(b, i, i)
         IN IF ca = cb THEN LessFrom(a, b, i + 1)
            ELSE CharRank(ca) < CharRank(cb)

\* Go's < on strings: bytewise lexicographic
StrLess(a, b) == LessFrom(a, b, 1)

LessTable == [a \in AllIds |-> {b \in AllIds : StrLess(a, b)}]

RECURSIVE Insert(_, _)
Insert(x, s) ==
    IF s = <<>> THEN <<x>>
    ELSE IF Head(s) \in LessTable[x] \/ Head(s) = x THEN <<x>> \o s
    ELSE <<Head(s)>> \o Insert(x, Tail(s))

RECURSIVE SortStrings(_)
SortStrings(s) ==
    IF s = <<>> THEN <<>> ELSE Insert(Head(s), SortStrings(Tail(s)))

\* strings.Index: the 0-based position of the first occurrence, or -1
Index(s, sub) ==
    LET hits == {i \in 1..(Len(s) - Len(sub) + 1) :
                    SubSeq(s, i, i + Len(sub) - 1) = sub}
    IN IF hits = {} THEN -1
       ELSE (CHOOSE i \in hits : \A j \in hits : i <= j) - 1

HasPrefix(s, prefix) ==
    Len(s) >= Len(prefix) /\ SubSeq(s, 1, Len(prefix)) = prefix

Contains(s, sub) == Index(s, sub) >= 0

\* regexp.MatchString for patterns of the form [^]literal[$]
MatchString(re, s) ==
    LET bol == HasPrefix(re, "^")
        eol == Len(re) > 0 /\ SubSeq(re, Len(re), Len(re)) = "$"
        lo == IF bol THEN 2 ELSE 1
        hi == IF eol THEN Len(re) - 1 ELSE Len(re)
        lit == SubSeq(re, lo, hi)
        n == Len(lit)
    IN \E i \in 1..(Len(s) - n + 1) :
          /\ SubSeq(s, i, i + n - 1) = lit
          /\ bol => i = 1
          /\ eol => i + n - 1 = Len(s)

---------------------------------------------------------------------------
(* matcher *)

\* regexp.MustCompile on the patterns of the model (a literal with an
\* optional ^ and $): a group or class that is not closed, or a leading
\* repetition, does not compile
unclosed(p, open, close) == Contains(p, open) /\ ~Contains(p, close)

compiles(p) ==
    /\ ~unclosed(p, "(", ")")
    /\ ~unclosed(p, "[", "]")
    /\ ~HasPrefix(p, "*")

\* panic: regexp.MustCompile panicked, no matcher is returned
newMatcher(p) ==
    IF p = "" THEN [panic |-> FALSE, re |-> ""]
    ELSE IF compiles(p) THEN [panic |-> FALSE, re |-> p]
    ELSE [panic |-> TRUE, re |-> ""]

\* a nil regexp matching nothing
MatchNilNone(m, pn) ==
    IF m.re = "" THEN FALSE
    ELSE LET i == Index(pn, "/vendor/")
             s == IF i >= 0 THEN SubSeq(pn, i + Len("/vendor/") + 1, Len(pn)) ELSE pn
         IN MatchString(m.re, s)

Match(m, pn) ==
    IF m.re = "" THEN TRUE
    ELSE LET i == Index(pn, "/vendor/")
             s == IF i >= 0 THEN SubSeq(pn, i + Len("/vendor/") + 1, Len(pn)) ELSE pn
         IN MatchString(m.re, s)

---------------------------------------------------------------------------
(* The graph builder *)

\* build.Import(pn, ig.srcDir, 0)
BuildImport(w, pn) ==
    [err |-> pn \in BadPkgs,
     ImportPath |-> ResolvedPath(pn),
     Imports |-> w[pn],
     Goroot |-> pn \in StdPkgs]

\* exec.Command("go", "list", args...).Run() with its standard output:
\* cmds gives, per argument list, whether the command fails and what it prints
goList(cmds, args) == cmds[args]

\* what `go list` does in one process: it is run on args only
Listing(args, err, lines) == [a \in {args} |-> [err |-> err, lines |-> lines]]

\* the command prints s for the arguments args
Listed(args, s) == Listing(args, FALSE, s)

\* ig.list(args): log.Fatalf when the command fails, else todo = its lines
list(g, cmds, args) ==
    LET c == goList(cmds, args)
    IN IF c.err THEN [fatal |-> TRUE, ig |-> g]
       ELSE [fatal |-> FALSE, ig |-> [g EXCEPT !.todo = c.lines]]

\* the struct literal of NewImportGraph, before ig.list
newGraph(includeStd) ==
    [Imports |-> <<>>,
     ImportPaths |-> <<>>,
     Std |-> {},
     includeStd |-> includeStd,
     todo |-> <<>>,
     added |-> <<>>]

NewImportGraph(includeStd, cmds, args) == list(newGraph(includeStd), cmds, args)

\* m[k] = v on a Go map
MapSet(m, k, v) == [x \in DOMAIN m \cup {k} |-> IF x = k THEN v ELSE m[x]]

\* skip without the pseudo-import check
skipNoPseudo(g, pn) ==
    IF pn \in DOMAIN g.Imports THEN TRUE
    ELSE IF g.includeStd /\ pn \in g.Std THEN TRUE
    ELSE FALSE

\* skip without the visited check
skipNoVisited(g, pn) ==
    IF pn = "C" \/ HasPrefix(pn, "golang_org/x/") THEN TRUE
    ELSE IF g.includeStd /\ pn \in g.Std THEN TRUE
    ELSE FALSE

skip(g, pn) ==
    IF pn = "C" \/ HasPrefix(pn, "golang_org/x/") THEN TRUE
    ELSE IF pn \in DOMAIN g.Imports THEN TRUE
    ELSE IF g.includeStd /\ pn \in g.Std THEN TRUE
    ELSE FALSE

\* the error of build.Import ignored
importFailedNever(p) == FALSE

\* addPkg, lines 110-113: build.Import returned an error
importFailed(p) == p.err

\* GOROOT packages never dropped
stdDroppedNever(g, p) == FALSE

\* the -std flag read the wrong way round
stdDroppedInverted(g, p) == p.Goroot /\ g.includeStd

\* addPkg, lines 115-120: a GOROOT package is dropped unless -std is given
stdDropped(g, p) == p.Goroot /\ ~g.includeStd

\* only the first import is put on the worklist
moreOfFirst(g, imports) ==
    IF imports = <<>> \/ skip(g, Head(imports)) THEN <<>> ELSE <<Head(imports)>>

\* addPkg, lines 132-138: the imports to put on the worklist
moreOf(g, imports) == SelectSeq(imports, LAMBDA pi : ~skip(g, pi))

\* the graph after addPkg(pn), the list it returns, and whether it called the provider
addPkg(g, w, pn) ==
    IF skip(g, pn) THEN [ig |-> g, more |-> <<>>, called |-> FALSE]
    ELSE
      LET p == BuildImport(w, pn) IN
      IF importFailed(p) THEN [ig |-> g, more |-> <<>>, called |-> TRUE]
      ELSE
        LET g1 == IF p.Goroot THEN [g EXCEPT !.Std = @ \cup {pn}] ELSE g IN
        IF stdDropped(g, p) THEN [ig |-> g1, more |-> <<>>, called |-> TRUE]
        ELSE IF p.ImportPath = "" THEN [ig |-> g1, more |-> <<>>, called |-> TRUE]
        ELSE
          LET sorted == SortStrings(p.Imports)
              g2 == [g1 EXCEPT !.Imports = MapSet(@, pn, sorted),
                               !.ImportPaths = MapSet(@, pn, p.ImportPath),
                               !.added = Append(@, pn)]
          IN [ig |-> g2, more |-> moreOf(g2, sorted), called |-> TRUE]

\* the loop stops one entry early
scanDoneEarly(g) == Len(g.todo) <= 1

\* the loop condition of Scan, negated
scanDone(g) == Len(g.todo) = 0

\* the rest of the worklist lost when a node has imports to visit
scanIterDropRest(g, w) ==
    LET r == addPkg(g, w, g.todo[1])
    IN [r.ig EXCEPT !.todo = IF r.more # <<>> THEN r.more ELSE Tail(g.todo)]

\* the imports put behind the rest of the worklist
scanIterBehind(g, w) ==
    LET r == addPkg(g, w, g.todo[1])
    IN [r.ig EXCEPT !.todo = Tail(g.todo) \o r.more]

\* one iteration of the loop of Scan
scanIter(g, w) ==
    LET r == addPkg(g, w, g.todo[1])
    IN [r.ig EXCEPT !.todo = r.more \o Tail(g.todo)]

\* Scan as a function: the graph the loop ends with
RECURSIVE Scan(_, _)
Scan(g, w) == IF scanDone(g) THEN g ELSE Scan(scanIter(g, w), w)

---------------------------------------------------------------------------
(* Renderers *)

filteredText(g, m, pn) ==
    SelectSeq(g.Imports[pn],
              LAMBDA pi : ~(~g.includeStd /\ pi \in g.Std) /\ Match(m, pi))

textHeader(g, pn) == pn \o " <= " \o g.ImportPaths[pn]

\* a node with no visible import is printed all the same
textBlockKeepEmpty(g, m, pn) ==
    IF ~Match(m, pn) THEN <<>>
    ELSE LET filtered == filteredText(g, m, pn)
         IN <<textHeader(g, pn)>>
            \o [i \in 1..Len(filtered) |-> "    " \o filtered[i]]

\* what WriteText prints for the node pn
textBlock(g, m, pn) ==
    IF ~Match(m, pn) THEN <<>>
    ELSE LET filtered == filteredText(g, m, pn)
         IN IF Len(filtered) = 0 THEN <<>>
            ELSE <<textHeader(g, pn)>>
                 \o [i \in 1..Len(filtered) |-> "    " \o filtered[i]]

RECURSIVE textFrom(_, _, _)
textFrom(g, m, k) ==
    IF k > Len(g.added) THEN <<>>
    ELSE textBlock(g, m, g.added[k]) \o textFrom(g, m, k + 1)

WriteText(g, m) == textFrom(g, m, 1)

\* WriteFlat without the sort
WriteFlatUnsorted(g, m) == SelectSeq(g.added, LAMBDA pn : Match(m, pn))

\* the lines WriteFlat prints
WriteFlat(g, m) == SortStrings(SelectSeq(g.added, LAMBDA pn : Match(m, pn)))

\* WriteDot, lines 222-225 and 255: nodes[pi], 0 for a key the map lacks
dotIndex(g, pi) ==
    IF pi \in Range(g.added)
    THEN (CHOOSE i \in 1..Len(g.added) : g.added[i] = pi) - 1
    ELSE 0

\* the filter of WriteDot with the standard-library test left out
filteredDotKeepStd(g, m, pn) ==
    SelectSeq(g.Imports[pn], LAMBDA pi : Match(m, pi))

filteredDot(g, m, pn) ==
    SelectSeq(g.Imports[pn],
              LAMBDA pi : ~(~g.includeStd /\ pi \in g.Std) /\ Match(m, pi))

dotDecl(g, i, pn) ==
    IF Contains(g.ImportPaths[pn], "/vendor/")
    THEN "    " \o ToString(i) \o " [label=\"" \o pn \o "\",style=filled];"
    ELSE "    " \o ToString(i) \o " [label=\"" \o pn \o "\"];"

dotEdge(i, j) == "    " \o ToString(i) \o " -> " \o ToString(j) \o ";"

\* what WriteDot prints for the node pn at position k of added
dotBlock(g, m, k) ==
    LET pn == g.added[k] IN
    IF ~Match(m, pn) THEN <<>>
    ELSE LET filtered == filteredDot(g, m, pn)
         IN IF Len(filtered) = 0 THEN <<>>
            ELSE <<dotDecl(g, k - 1, pn)>>
                 \o [i \in 1..Len(filtered) |->
                        dotEdge(k - 1, dotIndex(g, filtered[i]))]

RECURSIVE dotFrom(_, _, _)
dotFrom(g, m, k) ==
    IF k > Len(g.added) THEN <<>>
    ELSE dotBlock(g, m, k) \o dotFrom(g, m, k + 1)

WriteDot(g, m) == <<"digraph pkgdag {">> \o dotFrom(g, m, 1) \o <<"}">>

\* run: log.Fatalf when the command fails
runResult(ok, next) == IF ok THEN next ELSE "Fatal"

---------------------------------------------------------------------------
(* doDAG *)

\* no findTrueVersion run
NoVersionRun == [pc |-> "idle"]

Idle == [p |-> "", x |-> "", y |-> ""]
NoResult == [xy |-> FALSE, y |-> FALSE]

\* no doDAG run
NoProcess == [std |-> FALSE, args |-> <<>>, getwd |-> TRUE, listErr |-> FALSE]

\* the command lines of the runs: a pattern, a package, an unknown package
ArgLists == {<<"./...">>, <<"app">>, <<"no/such/pkg">>}

\* doDAG is entered: flags parsed, nothing built yet
Begin(e, s, w) ==
    /\ env = e
    /\ seeds = s
    /\ world = w
    /\ ig = newGraph(e.std)
    /\ calls = [p \in AllIds |-> 0]
    /\ pc = "Start"
    /\ outputFormat = ""
    /\ tmpFile = "none"
    /\ mr = newMatcher("")
    /\ out = <<>>
    /\ mIn = Idle
    /\ mOut = NoResult
    /\ fv = NoVersionRun

\* a run in which os.Getwd and `go list` succeed and the command prints s
Start(std, args, s, w) ==
    Begin([std |-> std, args |-> args, getwd |-> TRUE, listErr |-> FALSE], s, w)

\* a run in which os.Getwd fails, or `go list` exits non-zero
StartFailing(std, args, getwd) ==
    Begin([std |-> std, args |-> args, getwd |-> getwd, listErr |-> TRUE],
          <<>>, NoImports)

Init ==
    \E std \in BOOLEAN :
       \/ \E s \in SeqsUpTo(GenericIds, MaxSize) :
          \E a \in SeqsUpTo(GenericIds, MaxSize - Len(s)) :
          \E b \in SeqsUpTo(GenericIds, MaxSize - Len(s) - Len(a)) :
          \E c \in SeqsUpTo(GenericIds, MaxSize - Len(s) - Len(a) - Len(b)) :
             Start(std, <<"./...">>, s, GenericWorld(a, b, c))
       \/ Start(std, <<"app">>, <<"app">>, ScenarioWorld)
       \/ Start(std, <<"app", "fmt">>, <<"app", "fmt">>, PseudoWorld)
       \/ \E args \in ArgLists, getwd \in BOOLEAN : StartFailing(std, args, getwd)

\* doDAG up to the call of Scan: os.Getwd, then NewImportGraph with ig.list
DoDAGStart ==
    /\ pc = "Start"
    /\ LET r == NewImportGraph(env.std, Listing(env.args, env.listErr, seeds), env.args)
       IN IF ~env.getwd THEN pc' = "FatalGetwd" /\ ig' = ig
          ELSE IF r.fatal THEN pc' = "FatalList" /\ ig' = ig
          ELSE pc' = "Scan" /\ ig' = r.ig
    /\ UNCHANGED <<env, world, seeds, calls, outputFormat, tmpFile, mr, out, mIn, mOut, fv>>

\* Scan: one iteration of the loop
ScanStep ==
    /\ pc = "Scan"
    /\ ~scanDone(ig)
    /\ LET pn == ig.todo[1]
           r == addPkg(ig, world, pn)
       IN /\ ig' = scanIter(ig, world)
          /\ calls' = IF r.called THEN [calls EXCEPT ![pn] = @ + 1] ELSE calls
    /\ UNCHANGED <<env, world, seeds, pc, outputFormat, tmpFile, mr, out, mIn, mOut, fv>>

\* Scan returns
ScanReturn ==
    /\ pc = "Scan"
    /\ scanDone(ig)
    /\ pc' = "Render"
    /\ UNCHANGED <<env, world, seeds, ig, calls, outputFormat, tmpFile, mr, out, mIn, mOut, fv>>

\* newMatcher(*matches) panics on a pattern that does not compile: the
\* process ends after Scan and before the switch on -f
NewMatcherPanic ==
    /\ pc = "Render"
    /\ \E p \in Patterns : newMatcher(p).panic
    /\ pc' = "Panic"
    /\ UNCHANGED <<env, world, seeds, ig, calls, outputFormat, tmpFile, mr, out, mIn, mOut, fv>>

\* -f text
DoWriteText ==
    /\ pc = "Render"
    /\ \E p \in Patterns :
          /\ ~newMatcher(p).panic
          /\ mr' = newMatcher(p)
          /\ out' = WriteText(ig, newMatcher(p))
    /\ pc' = "Done"
    /\ outputFormat' = "text"
    /\ UNCHANGED <<env, world, seeds, ig, calls, tmpFile, mIn, mOut, fv>>

\* -f flat (the default)
DoWriteFlat ==
    /\ pc = "Render"
    /\ \E p \in Patterns :
          /\ ~newMatcher(p).panic
          /\ mr' = newMatcher(p)
          /\ out' = WriteFlat(ig, newMatcher(p))
    /\ pc' = "Done"
    /\ outputFormat' = "flat"
    /\ UNCHANGED <<env, world, seeds, ig, calls, tmpFile, mIn, mOut, fv>>

\* -f dot
DoWriteDot ==
    /\ pc = "Render"
    /\ \E p \in Patterns :
          /\ ~newMatcher(p).panic
          /\ mr' = newMatcher(p)
          /\ out' = WriteDot(ig, newMatcher(p))
    /\ pc' = "Done"
    /\ outputFormat' = "dot"
    /\ UNCHANGED <<env, world, seeds, ig, calls, tmpFile, mIn, mOut, fv>>

\* -f svg: ShowGraph writes the description to a buffer and creates the
\* temporary file, or exits when it cannot create it
ShowGraphBegin ==
    /\ pc = "Render"
    /\ \E p \in Patterns :
          /\ ~newMatcher(p).panic
          /\ mr' = newMatcher(p)
          /\ out' = WriteDot(ig, newMatcher(p))
    /\ outputFormat' = "svg"
    /\ \E created \in BOOLEAN :
          /\ tmpFile' = IF created THEN "exists" ELSE "none"
          /\ pc' = IF created THEN "Dot" ELSE "Fatal"
    /\ UNCHANGED <<env, world, seeds, ig, calls, mIn, mOut, fv>>

\* ShowGraph: run("dot", ...), which exits the process when dot fails
ShowGraphDot ==
    /\ pc = "Dot"
    /\ \E ok \in BOOLEAN : pc' = runResult(ok, "View")
    /\ UNCHANGED <<env, world, seeds, ig, calls, outputFormat, tmpFile, mr, out, mIn, mOut, fv>>

\* ShowGraph: run(svgViewer, ...), then os.Remove
ShowGraphView ==
    /\ pc = "View"
    /\ \E ok \in BOOLEAN :
          /\ pc' = runResult(ok, "Done")
          /\ tmpFile' = IF runResult(ok, "Done") = "Done" THEN "removed" ELSE tmpFile
    /\ UNCHANGED <<env, world, seeds, ig, calls, outputFormat, mr, out, mIn, mOut, fv>>

Next ==
    \/ DoDAGStart
    \/ ScanStep
    \/ ScanReturn
    \/ NewMatcherPanic
    \/ DoWriteText
    \/ DoWriteFlat
    \/ DoWriteDot
    \/ ShowGraphBegin
    \/ ShowGraphDot
    \/ ShowGraphView

\* matcher.Match on its own: patterns, vendoring prefixes and identifiers
MatchPatterns == {"^libA$", "lib", "app", "^b", "a("}
MatchPrefixes == {"app", "github.com/x", "a/vendor/b"}
MatchNames == {"libA", "lib", "app", "b/vendor/libA", "github.com/y"}

MatchInit ==
    /\ env = NoProcess
    /\ seeds = <<>>
    /\ world = NoImports
    /\ ig = newGraph(FALSE)
    /\ calls = [p \in AllIds |-> 0]
    /\ pc = "Match"
    /\ outputFormat = ""
    /\ tmpFile = "none"
    /\ out = <<>>
    /\ mOut = NoResult
    /\ fv = NoVersionRun
    /\ mr = newMatcher("")
    /\ \E p \in MatchPatterns, x \in MatchPrefixes, y \in MatchNames :
          mIn = [p |-> p, x |-> x, y |-> y]

\* newMatcher(p), then Match on the vendored identifier x/vendor/y and on y
MatchCall ==
    /\ pc = "Match"
    /\ LET m == newMatcher(mIn.p)
       IN IF m.panic
          THEN pc' = "Panic" /\ UNCHANGED <<mr, mOut>>
          ELSE /\ mr' = m
               /\ mOut' = [xy |-> Match(m, mIn.x \o "/vendor/" \o mIn.y),
                           y |-> Match(m, mIn.y)]
               /\ pc' = "Matched"
    /\ UNCHANGED <<env, world, seeds, ig, calls, outputFormat, tmpFile, out, mIn, fv>>

MatchNext == MatchCall

MatchSpec == MatchInit /\ [][MatchNext]_vars

Spec == Init /\ [][Next]_vars

\* the loop of Scan and the calls of doDAG run without being suspended
FairSpec == Spec /\ WF_vars(Next)

\* doDAG up to the return of Scan
ScanNext ==
    \/ DoDAGStart
    \/ ScanStep
    \/ ScanReturn

ScanSpec == Init /\ [][ScanNext]_vars

\* the loop of Scan is not suspended
ScanFairSpec == ScanSpec /\ WF_vars(ScanNext)

\* ---------------------------------------------------------------------
\* showversion: findTrueVersion over a chain of vendored manifests
\* ---------------------------------------------------------------------
MaxChain == 2
MaxDepth == 3
MaxStat == 2

\* What the k-th package spec on the chain meets, in the order the code
\* tests it:
\*   novendor  Origin holds no "/vendor/"            (vendorRepo, Fatalf)
\*   norepo    no GOPATH entry holds the vendor file (vendorRepo returns "")
\*   worktree / worktreeMissing
\*             Revision is empty: readSpec reads the file of the work tree,
\*             which yields the package without origin / cannot be read
\*   nogit     Revision set, the repo directory holds no .git
\*   noshow    git show fails
\*   badjson   the manifest does not unmarshal
\*   notfound  the manifest does not list the package
\*   origin    the manifest lists the package with an Origin
\*   direct    the manifest lists the package without Origin
LevelKinds == {"novendor", "norepo", "worktree", "worktreeMissing", "nogit",
               "noshow", "badjson", "notfound", "origin", "direct"}

Chains == { c \in SeqsUpTo(LevelKinds, MaxChain) : Len(c) > 0 }

\* a manifest chain that refers back to its first repository is cyclic
LevelOf(v) == v.chain[((v.level - 1) % Len(v.chain)) + 1]

vendorRepo(kind) == CASE kind = "novendor" -> "Fatal"
                      [] kind = "norepo" -> ""
                      [] OTHER -> "rp"

revisionSet(kind) == kind \notin {"worktree", "worktreeMissing"}

statGit(kind) == kind # "nogit"

gitDirIter(dir, kind) == IF dir = "" THEN "Empty"
                         ELSE IF statGit(kind) THEN "Found" ELSE "Again"

readVendor(kind) == CASE kind = "worktreeMissing" -> "Fatal"
                      [] kind = "noshow" -> "nil"
                      [] kind = "badjson" -> "Fatal"
                      [] OTHER -> "spec"

findUp(kind) == CASE kind = "notfound" -> "nil"
                  [] kind = "origin" -> "origin"
                  [] OTHER -> "noorigin"

VersionRun(c, d) == [pc |-> "call", chain |-> c, maxDepth |-> d, depth |-> d,
                     level |-> 1, lookups |-> 0, stats |-> 0, vos |-> <<>>]

VersionInit ==
    /\ env = NoProcess
    /\ seeds = <<>>
    /\ world = NoImports
    /\ ig = newGraph(FALSE)
    /\ calls = [p \in AllIds |-> 0]
    /\ pc = "Version"
    /\ outputFormat = ""
    /\ tmpFile = "none"
    /\ out = <<>>
    /\ mr = newMatcher("")
    /\ mIn = Idle
    /\ mOut = NoResult
    /\ \E c \in Chains, d \in 1..MaxDepth : fv = VersionRun(c, d)

VersionFrame == <<env, world, seeds, ig, calls, pc, outputFormat, tmpFile, mr, out, mIn, mOut>>

\* findTrueVersion up to the call of readSpec
FindTrueVersionCall ==
    /\ fv.pc = "call"
    /\ LET kind == LevelOf(fv)
           rp == vendorRepo(kind)
       IN fv' = IF rp = "Fatal" THEN [fv EXCEPT !.pc = "fatal"]
                ELSE IF rp = "" THEN [fv EXCEPT !.pc = "return", !.vos = <<fv.level>>]
                ELSE [fv EXCEPT !.pc = IF revisionSet(kind) THEN "gitDir" ELSE "read",
                                !.lookups = @ + 1, !.stats = 0]
    /\ UNCHANGED VersionFrame

\* one iteration of the loop of gitDir; dir is never assigned in the loop.
\* stats counts the calls of os.Stat, wrapping after MaxStat
GitDirStep ==
    /\ fv.pc = "gitDir"
    /\ LET r == gitDirIter("rp", LevelOf(fv))
       IN fv' = [fv EXCEPT !.stats = (@ + 1) % (MaxStat + 1),
                           !.pc = CASE r = "Found" -> "read"
                                    [] r = "Empty" -> "return"
                                    [] OTHER -> "gitDir",
                           !.vos = IF r = "Empty" THEN <<fv.level>> ELSE @]
    /\ UNCHANGED VersionFrame

\* readSpec after gitDir: read the manifest and unmarshal it
ReadSpecStep ==
    /\ fv.pc = "read"
    /\ LET r == readVendor(LevelOf(fv))
       IN fv' = CASE r = "Fatal" -> [fv EXCEPT !.pc = "fatal"]
                  [] r = "nil" -> [fv EXCEPT !.pc = "return", !.vos = <<fv.level>>]
                  [] OTHER -> [fv EXCEPT !.pc = "find"]
    /\ UNCHANGED VersionFrame

\* findTrueVersion after readSpec: look the package up, recurse on an Origin
FindTrueVersionUp ==
    /\ fv.pc = "find"
    /\ LET up == findUp(LevelOf(fv))
       IN fv' = CASE up = "nil" -> [fv EXCEPT !.pc = "return", !.vos = <<>>]
                  [] up = "origin" ->
                        IF fv.depth - 1 <= 0
                        THEN [fv EXCEPT !.pc = "fatal", !.depth = @ - 1]
                        ELSE [fv EXCEPT !.pc = "call", !.depth = @ - 1,
                                        !.level = @ + 1]
                  [] OTHER -> [fv EXCEPT !.pc = "return",
                                         !.vos = <<fv.level, fv.level + 1>>]
    /\ UNCHANGED VersionFrame

\* return to the calling findTrueVersion, which appends vos to its out
FindTrueVersionReturn ==
    /\ fv.pc = "return"
    /\ fv' = IF fv.level = 1 THEN [fv EXCEPT !.pc = "done"]
             ELSE [fv EXCEPT !.level = @ - 1, !.vos = <<fv.level - 1>> \o @]
    /\ UNCHANGED VersionFrame

VersionNext ==
    \/ FindTrueVersionCall
    \/ GitDirStep
    \/ ReadSpecStep
    \/ FindTrueVersionUp
    \/ FindTrueVersionReturn

VersionSpec == VersionInit /\ [][VersionNext]_vars

\* the utility is a single process that is never suspended for ever
VersionFairSpec == VersionSpec /\ WF_vars(VersionNext)

---------------------------------------------------------------------------
(* Vocabulary of the claims *)

Nodes(g) == DOMAIN g.Imports

ScanFinished == pc \in {"Render", "Panic", "Dot", "View", "Done", "Fatal"}

\* WriteText has written out
TextDone == pc = "Done" /\ outputFormat = "text"

\* WriteFlat has written out
FlatDone == pc = "Done" /\ outputFormat = "flat"

\* WriteDot has written out
DotDone == pc = "Done" /\ outputFormat = "dot"

IsPseudo(pn) == pn = "C" \/ HasPrefix(pn, "golang_org/x/")

\* the provider returns no error and a non-empty canonical path
Classifiable(w, pn) ==
    LET p == BuildImport(w, pn) IN ~p.err /\ p.ImportPath # ""

\* a pseudo-import, or a standard-library package when those are left out
Excluded(std, w, pn) ==
    IsPseudo(pn) \/ (~std /\ BuildImport(w, pn).Goroot)

\* the identifiers reachable from R through the recorded imports of graph nodes
RECURSIVE ReachG(_, _)
ReachG(g, R) ==
    LET R2 == R \cup UNION {Range(g.Imports[n]) : n \in R \cap Nodes(g)}
    IN IF R2 = R THEN R ELSE ReachG(g, R2)

\* the identifiers reachable from R in the provider's relation along
\* classifiable, non-excluded packages
RECURSIVE GoodReach(_, _, _)
GoodReach(std, w, R) ==
    LET good == {n \in R : Classifiable(w, n) /\ ~Excluded(std, w, n)}
        R2 == R \cup UNION {Range(w[n]) : n \in good}
    IN IF R2 = R THEN R ELSE GoodReach(std, w, R2)

\* the provider's relation has a cycle through two packages
Cyclic(w) ==
    \E a, b \in AllIds : a # b /\ b \in Range(w[a]) /\ a \in Range(w[b])

---------------------------------------------------------------------------
(* C1: from every input (cyclic relations, failing packages, either -std    *)
(* setting), Scan returns, and the worklist is empty when it does.          *)
C1_ScanTerminates == (pc = "Scan") ~> (pc = "Render" /\ Len(ig.todo) = 0)

C1_Witness ==
    /\ pc = "Render"
    /\ Cyclic(world)
    /\ Len(ig.added) = 2
    /\ Len(ig.todo) = 0

(* C2: when Scan has returned, every identifier reachable from a seed       *)
(* through the imports of graph nodes that is classifiable and not excluded *)
(* occurs exactly once in added.                                            *)
C2_ReachableAddedOnce ==
    ScanFinished =>
        \A p \in ReachG(ig, Range(seeds)) :
            (Classifiable(world, p) /\ ~Excluded(ig.includeStd, world, p))
                => Count(ig.added, p) = 1

C2_Witness ==
    /\ pc = "Render"
    /\ Len(ig.added) = 2
    /\ Len(seeds) = 1
    /\ \E p \in ReachG(ig, Range(seeds)) : ~Classifiable(world, p)

(* C3: the provider is called at most once per identifier during one        *)
(* traversal.                                                               *)
C3_ClassifiedAtMostOnce == \A p \in AllIds : calls[p] <= 1

(* C4: a failed classification is not fatal and not retried: the step that  *)
(* fails drops the identifier and leaves the graph alone, the scan goes on  *)
(* to return, and then the graph nodes are exactly the packages reachable   *)
(* from the seeds along classified, non-excluded packages; a package that   *)
(* failed is none of them.                                                  *)
C4_FailedNow(p) == ~Classifiable(world, p) /\ calls[p] > 0

C4_Final ==
    ScanFinished =>
        LET R == GoodReach(ig.includeStd, world, Range(seeds))
        IN /\ \A p \in AllIds : ~Classifiable(world, p) => p \notin Range(ig.added)
           /\ Range(ig.added) =
                 {p \in R : Classifiable(world, p) /\ ~Excluded(ig.includeStd, world, p)}

C4_Step ==
    \A p \in AllIds :
        (~Classifiable(world, p) /\ calls'[p] > calls[p]) =>
            /\ pc' = "Scan"
            /\ ig'.todo = Tail(ig.todo)
            /\ ig'.Imports = ig.Imports
            /\ ig'.ImportPaths = ig.ImportPaths
            /\ ig'.added = ig.added

C4_FailureSkipped ==
    /\ []C4_Final
    /\ [][C4_Step]_vars
    /\ (\E p \in AllIds : C4_FailedNow(p)) ~> ScanFinished

C4_Witness ==
    /\ pc = "Render"
    /\ calls["bad"] > 0
    /\ Len(ig.added) = 2

(* C5: without -std, no identifier recorded in Std is a key of Imports or   *)
(* an element of added, in any state of the traversal.                      *)
C5_StdNeverNode ==
    ~ig.includeStd =>
        ig.Std \cap (Nodes(ig) \cup Range(ig.added)) = {}

C5_Witness ==
    /\ ~ig.includeStd
    /\ "fmt" \in ig.Std
    /\ Len(ig.added) >= 1
    /\ "fmt" \in Range(ig.Imports[ig.added[1]])

(* C6: the keys of Imports, the keys of ImportPaths and the elements of     *)
(* added are the same set, and added holds no identifier twice.             *)
C6_NodesOnce ==
    /\ DOMAIN ig.Imports = DOMAIN ig.ImportPaths
    /\ DOMAIN ig.Imports = Range(ig.added)
    /\ \A p \in Range(ig.added) : Count(ig.added, p) = 1

C6_Witness ==
    /\ pc = "Render"
    /\ \E p \in Range(ig.added) :
          /\ Count(seeds, p) = 2
          /\ p \in Range(ig.Imports[p])

(* C7: for the same seeds and relation, every non-standard-library node of  *)
(* the graph built without -std is a node of the graph built with -std,     *)
(* with the same import list. As claimed, every further node of the -std    *)
(* graph is a standard-library package; as amended, it is one or is reached *)
(* from one through recorded imports.                                       *)
EnabledGraph == Scan(NewImportGraph(TRUE, Listed(env.args, seeds), env.args).ig, world)

IsStd(pn) == BuildImport(world, pn).Goroot

C7_NodesKept(e) ==
    \A n \in Nodes(ig) :
        ~IsStd(n) => (n \in Nodes(e) /\ e.Imports[n] = ig.Imports[n])

C7_ToggleOnlyAddsStd ==
    (ScanFinished /\ ~ig.includeStd) =>
        LET e == EnabledGraph
        IN /\ C7_NodesKept(e)
           /\ \A n \in Nodes(e) \ Nodes(ig) : IsStd(n)

C7_ToggleKeepsNodes ==
    (ScanFinished /\ ~ig.includeStd) =>
        LET e == EnabledGraph
            stdNodes == {n \in Nodes(e) : IsStd(n)}
        IN /\ C7_NodesKept(e)
           /\ \A n \in Nodes(e) \ Nodes(ig) : n \in ReachG(e, stdNodes)

C7_Witness ==
    /\ pc = "Render"
    /\ ~ig.includeStd
    /\ Range(ig.added) = {"app"}
    /\ Nodes(EnabledGraph) = {"app", "fmt", "app/vendor/libA"}

(* C8: the nodes WriteText prints a header line for under a filter P are    *)
(* among those it prints a header line for with no filter.                  *)
TextNodes(g, lines) ==
    {pn \in Range(g.added) :
        \E i \in 1..Len(lines) : lines[i] = textHeader(g, pn)}

UnfilteredNodes == TextNodes(ig, WriteText(ig, newMatcher("")))

C8_FilterSubset ==
    TextDone => TextNodes(ig, out) \subseteq UnfilteredNodes

C8_Witness ==
    /\ TextDone
    /\ mr.re # ""
    /\ TextNodes(ig, out) # {}
    /\ TextNodes(ig, out) # UnfilteredNodes

(* C9: as claimed, the nodes printed under a filter P are exactly the nodes *)
(* printed with no filter that pass Match; as amended, exactly those that   *)
(* pass Match and have an import that passes Match and is not a left-out    *)
(* standard-library package.                                                *)
C9_FilterEqualsMatching ==
    TextDone =>
        TextNodes(ig, out) = {n \in UnfilteredNodes : Match(mr, n)}

C9_FilterEqualsMatchingWithImport ==
    TextDone =>
        TextNodes(ig, out) =
            {n \in UnfilteredNodes :
                /\ Match(mr, n)
                /\ \E pi \in Range(ig.Imports[n]) :
                      /\ Match(mr, pi)
                      /\ ~(~ig.includeStd /\ pi \in ig.Std)}

C9_Witness ==
    /\ TextDone
    /\ mr.re # ""
    /\ \E n \in UnfilteredNodes : Match(mr, n) /\ n \notin TextNodes(ig, out)

(* C10: Match under a non-empty pattern P is P on the part of the           *)
(* identifier after its last "/vendor/", so Match(x/vendor/y) = Match(y)    *)
(* for every x and y, also when y holds a "/vendor/" itself.                *)
LastIndex(s, sub) ==
    LET hits == {i \in 1..(Len(s) - Len(sub) + 1) :
                    SubSeq(s, i, i + Len(sub) - 1) = sub}
    IN IF hits = {} THEN -1
       ELSE (CHOOSE i \in hits : \A j \in hits : i >= j) - 1

AfterLastVendor(s) ==
    LET i == LastIndex(s, "/vendor/")
    IN IF i >= 0 THEN SubSeq(s, i + Len("/vendor/") + 1, Len(s)) ELSE s

C10_MatchStripsToLastVendor ==
    pc = "Matched" =>
        /\ mOut.xy = MatchString(mIn.p, AfterLastVendor(mIn.x \o "/vendor/" \o mIn.y))
        /\ mOut.y = MatchString(mIn.p, AfterLastVendor(mIn.y))
        /\ mOut.xy = mOut.y

(* C11: over the same relation, a second traversal from the same seeds in   *)
(* any order ends with the same node set and the same import list per node, *)
(* and a second traversal from the seeds in the same order also ends with   *)
(* the same added.                                                          *)
Reorderings(s) ==
    {t \in [1..Len(s) -> Range(s)] : \A x \in Range(s) : Count(t, x) = Count(s, x)}

SecondRun(s) == Scan(NewImportGraph(ig.includeStd, Listed(env.args, s), env.args).ig, world)

Reverse(s) == [i \in 1..Len(s) |-> s[Len(s) + 1 - i]]

C11_SeedOrderIrrelevant ==
    ScanFinished =>
        /\ \A t \in Reorderings(seeds) :
              LET g == SecondRun(t)
              IN /\ Nodes(g) = Nodes(ig)
                 /\ g.Imports = ig.Imports
        /\ SecondRun(seeds).added = ig.added

C11_Witness ==
    /\ pc = "Render"
    /\ Len(ig.added) >= 2
    /\ SecondRun(Reverse(seeds)).added # ig.added
    /\ \E n \in Nodes(ig) : Len(ig.Imports[n]) > 0

(* C12: when a run of ShowGraph has ended, by returning or by a fatal exit  *)
(* of the rasterizer or the viewer, the temporary image file it created no  *)
(* longer exists.                                                           *)
C12_TempFileGone ==
    (outputFormat = "svg" /\ pc \in {"Done", "Fatal"}) => tmpFile # "exists"

(* C13: every import line WriteText prints names a graph node that passes   *)
(* the matcher and, without -std, is not a standard-library package.        *)
IsImportLine(line) == HasPrefix(line, "    ")

ImportOfLine(line) == SubSeq(line, 5, Len(line))

C13_TextImportsAreNodes ==
    TextDone =>
        \A i \in 1..Len(out) :
            IsImportLine(out[i]) =>
                LET pi == ImportOfLine(out[i])
                IN /\ pi \in Range(ig.added)
                   /\ Match(mr, pi)
                   /\ ~ig.includeStd => ~IsStd(pi)

(* C14: WriteDot declares exactly the nodes WriteText prints a header for,  *)
(* and under each it emits one edge per import line of WriteText, in the    *)
(* same order: the filtered import lists of the two renderers are equal.    *)
DotNodes(g, lines) ==
    {pn \in Range(g.added) :
        \E i \in 1..Len(lines) : lines[i] = dotDecl(g, dotIndex(g, pn), pn)}

\* the block of WriteDot for position k, rebuilt from the block of WriteText
DotFromTextBlock(g, m, k) ==
    LET tb == textBlock(g, m, g.added[k])
    IN IF tb = <<>> THEN <<>>
       ELSE <<dotDecl(g, k - 1, g.added[k])>>
            \o [i \in 1..(Len(tb) - 1) |->
                   dotEdge(k - 1, dotIndex(g, ImportOfLine(tb[i + 1])))]

RECURSIVE DotFromText(_, _, _)
DotFromText(g, m, k) ==
    IF k > Len(g.added) THEN <<>>
    ELSE DotFromTextBlock(g, m, k) \o DotFromText(g, m, k + 1)

C14_DotMirrorsText ==
    DotDone =>
        /\ DotNodes(ig, out) = TextNodes(ig, WriteText(ig, mr))
        /\ out = <<"digraph pkgdag {">> \o DotFromText(ig, mr, 1) \o <<"}">>
        /\ \A n \in Range(ig.added) : filteredDot(ig, mr, n) = filteredText(ig, mr, n)

C14_Witness ==
    /\ DotDone
    /\ mr.re # ""
    /\ Len(out) > 2
    /\ DotNodes(ig, out) # Range(ig.added)

(* C15: WriteFlat prints exactly the graph nodes that pass the matcher,     *)
(* each once, in lexicographic order, with or without imports; for the      *)
(* graph of spec.md section 8 and the pattern ^libA$ it prints libA alone.  *)
Section8Run == world = ScenarioWorld /\ seeds = <<"app">>

C15_FlatSortedMatching ==
    FlatDone =>
        /\ Range(out) = {n \in Range(ig.added) : Match(mr, n)}
        /\ \A i \in 1..(Len(out) - 1) : StrLess(out[i], out[i + 1])
        /\ (Section8Run /\ mr.re = "^libA$") => out = <<"libA">>

C15_Witness ==
    /\ FlatDone
    /\ Len(out) >= 2
    /\ out # SelectSeq(ig.added, LAMBDA pn : Match(mr, pn))
    /\ \E n \in Range(out) : Len(ig.Imports[n]) = 0

(* C16: a pseudo-import, "C" or an identifier under golang_org/x/, is never *)
(* passed to build.Import and never becomes a graph node, as a seed or as   *)
(* an import of a classified package.                                       *)
C16_PseudoNeverClassified ==
    \A p \in AllIds :
        IsPseudo(p) =>
            /\ calls[p] = 0
            /\ p \notin Nodes(ig)
            /\ p \notin Range(ig.added)

C16_Witness ==
    /\ pc = "Render"
    /\ "C" \in Range(seeds)
    /\ \E n \in Nodes(ig) : "C" \in Range(ig.Imports[n])

(* C17: in every state the recorded import list of every graph node is     *)
(* sorted and holds no identifier twice, whatever order and multiplicity    *)
(* the provider returned the direct imports in.                             *)
Sorted(l) ==
    \A i \in 1..(Len(l) - 1) : l[i] = l[i + 1] \/ StrLess(l[i], l[i + 1])

GoodNode(n) == Classifiable(world, n) /\ ~Excluded(ig.includeStd, world, n)

RECURSIVE DfsVisit(_, _)
RECURSIVE DfsList(_, _)
DfsVisit(order, n) ==
    IF n \in Range(order) \/ ~GoodNode(n) THEN order
    ELSE DfsList(Append(order, n), SortStrings(world[n]))

DfsList(order, l) ==
    IF l = <<>> THEN order
    ELSE DfsList(DfsVisit(order, Head(l)), Tail(l))

C18_Preorder ==
    ScanFinished =>
        /\ ig.added = DfsList(<<>>, seeds)
        /\ Section8Run => ig.added = <<"app", "libA", "libB">>

C18_FrontInsertion ==
    (pc = "Scan" /\ Len(ig'.added) = Len(ig.added) + 1) =>
        LET pn == ig.todo[1]
            after == ig'
            pending == SelectSeq(SortStrings(world[pn]),
                                 LAMBDA pi : /\ ~IsPseudo(pi)
                                             /\ pi \notin Nodes(after)
                                             /\ ~(after.includeStd /\ pi \in after.Std))
        IN after.todo = pending \o Tail(ig.todo)

C18_DepthFirstOrder == []C18_Preorder /\ [][C18_FrontInsertion]_vars

C18_Witness ==
    /\ pc = "Render"
    /\ Section8Run
    /\ ig.added = <<"app", "libA", "libB">>

(* C19: every edge statement "i -> j;" of WriteDot has i the position of    *)
(* the importing node in added and j the position of the imported package   *)
(* in added; the imported package is a graph node.                          *)
C19_EdgesPointAtImports ==
    DotDone =>
        \A k \in 1..Len(ig.added) :
            LET pn == ig.added[k]
                filtered == filteredDot(ig, mr, pn)
            IN (Match(mr, pn) /\ Len(filtered) > 0) =>
                  \A i \in 1..Len(filtered) :
                      /\ filtered[i] \in Range(ig.added)
                      /\ \E l \in 1..Len(out) :
                            out[l] = dotEdge(k - 1,
                                (CHOOSE j \in 1..Len(ig.added) :
                                    ig.added[j] = filtered[i]) - 1)

VersionEnded == fv.pc \in {"done", "fatal"}

(* C20: findTrueVersion terminates for every chain of vendored manifests   *)
(* and every depth >= 1, returning a version chain or aborting, after at   *)
(* most depth manifest lookups; each lookup (readSpec via gitDir)          *)
(* terminates whether or not the directory is a source-control root.       *)
C20_LookupsBounded == fv.lookups <= fv.maxDepth /\ fv.level <= fv.maxDepth
C20_DepthBoundedTermination == <>VersionEnded /\ []C20_LookupsBounded

====
